---- MODULE Spec2Model ----
(***************************************************************************)
(* A model of the two notebooks of kwant-tutorial-2016:                    *)
(*   3.3.MagnetoResistance-cheat.ipynb  (Transport, MakeSystem, the angle  *)
(*                                       sweep and the Hall sweep)         *)
(*   2.2.scattering.ipynb               (make_wire, the _dot cell)         *)
(*                                                                         *)
(* kwant and numpy are libraries the notebooks call.  What they return is  *)
(* an input of the model: kwant.smatrix gives a table of transmissions     *)
(* drawn from a bounded set, and np.linalg.solve is LAPACK's LU            *)
(* factorisation with partial pivoting, carried out here on exact          *)
(* rationals together with a flag per entry that tells whether the         *)
(* floating-point computation of that entry is exact.                      *)
(*                                                                         *)
(* Three specifications share the variables:                               *)
(*   SpecTransport  one call of Transport on any table of transmissions,   *)
(*   SpecSweep      the angle sweep and the Hall sweep, point by point,    *)
(*   SpecBuilder    the builders of the notebooks and their leads.         *)
(***************************************************************************)
EXTENDS Integers, Sequences, FiniteSets, TLC

VARIABLES
    pc,        \* where the running cell is: "call", "returned", "LinAlgError", ...
    smat,      \* Transport's local smatrix: smat[i][j] = smatrix.transmission(i, j)
    G,         \* the 4x4 matrix Transport returned (notebook variable G)
    V,         \* Transport's local V, the result of np.linalg.solve
    Hall,      \* the Hall value Transport returned (notebook variable Hall)
    Hf,        \* the finalized system, as kwant.smatrix answers for it:
               \* Hf[args] is the table of transmissions for the arguments args
    ps,        \* the namespace of the Hall cell
    params,    \* the namespace of the angle cell
    Es,        \* the grid of the Hall sweep
    angles,    \* the grid of the angle sweep, in units of pi
    point,     \* the number of grid points the running for loop has taken
    dataHall,  \* the list the Hall sweep appends to
    data,      \* the list the angle sweep appends to
    H,         \* the builder a cell constructs: who made it and H.leads
    finalized  \* the leads of H.finalized(), once it has been taken

transportVars == <<smat, G, V, Hall>>
sweepVars == <<Hf, ps, params, Es, angles, point, dataHall, data>>
builderVars == <<H, finalized>>
vars == <<pc, transportVars, sweepVars, builderVars>>

-----------------------------------------------------------------------------
(* Bounds of the model. *)

\* The transmissions of one table sum to at most MaxTotal.
MaxTotal == 6

\* The number of points of np.linspace(0.1,3.,50) and of
\* np.linspace(0,2*pi,100) that the model keeps.
NumEs == 2
NumAngles == 2

\* The number of points a sweep visits.
GridLen == 3

\* A builder gets at most MaxLeads leads.
MaxLeads == 4

-----------------------------------------------------------------------------
(* Numbers.  A float is modelled by the rational it stands for, kept in    *)
(* lowest terms with a positive denominator.  NotANumber stands for a      *)
(* value whose digits depend on the rounding of the build.                 *)

Abs(a) == IF a < 0 THEN -a ELSE a

RECURSIVE Gcd(_, _)
Gcd(a, b) == IF b = 0 THEN a ELSE Gcd(b, a % b)

Rat(n, d) ==
    LET g == Gcd(Abs(n), Abs(d))
        s == IF d < 0 THEN -1 ELSE 1
    IN  [n |-> s * (n \div g), d |-> s * (d \div g)]

Zero == [n |-> 0, d |-> 1]
One == [n |-> 1, d |-> 1]
NotANumber == [n |-> 0, d |-> 0]

FromInt(a) == [n |-> a, d |-> 1]
IsNumber(a) == a.d # 0
RSub(a, b) ==
    IF IsNumber(a) /\ IsNumber(b) THEN Rat(a.n * b.d - b.n * a.d, a.d * b.d)
    ELSE NotANumber
RAdd(a, b) ==
    IF IsNumber(a) /\ IsNumber(b) THEN Rat(a.n * b.d + b.n * a.d, a.d * b.d)
    ELSE NotANumber
RMul(a, b) ==
    IF IsNumber(a) /\ IsNumber(b) THEN Rat(a.n * b.n, a.d * b.d)
    ELSE NotANumber
RDiv(a, b) ==
    IF IsNumber(a) /\ IsNumber(b) /\ b.n # 0 THEN Rat(a.n * b.d, a.d * b.n)
    ELSE NotANumber
RAbsLess(a, b) == Abs(a.n) * b.d < Abs(b.n) * a.d

RECURSIVE IsPow2(_)
IsPow2(m) == IF m <= 1 THEN m = 1 ELSE m % 2 = 0 /\ IsPow2(m \div 2)

\* 1/p and c/p are computed without rounding when p is +-2^e.
IsPow2Rat(p) == IsPow2(Abs(p.n)) /\ IsPow2(p.d)

-----------------------------------------------------------------------------
(* kwant.smatrix(...).transmission: the tables the model draws.            *)

Leads == 0..3

\* The rows of transmissions (T[i][0], .., T[i][3]) that sum to at most total.
RECURSIVE Vecs(_, _)
Vecs(len, total) ==
    IF len = 0 THEN {<<>>}
    ELSE UNION {{Append(v, x) : v \in Vecs(len - 1, total - x)} : x \in 0..total}

Rows == [total \in 0..MaxTotal |-> Vecs(4, total)]

RowSum(r) == r[1] + r[2] + r[3] + r[4]

TableOf(r0, r1, r2, r3) ==
    [i \in Leads |-> [j \in Leads |-> <<r0, r1, r2, r3>>[i + 1][j + 1]]]

NoMatrix == [i \in Leads |-> [j \in Leads |-> 0]]
NoVector == [i \in 0..2 |-> NotANumber]

-----------------------------------------------------------------------------
(* Transport, lines 222-229: the conductance matrix.                       *)

\* The accumulator a of row i after the inner loop has run j = 0..upto.
RECURSIVE RowAcc(_, _, _)
RowAcc(T, i, upto) ==
    IF upto < 0 THEN 0
    ELSE RowAcc(T, i, upto - 1) + (IF i # upto THEN T[i][upto] ELSE 0)

\* Variants of the loop, kept to show that the properties below tell them
\* from the loop of the notebook: one that adds the reflection G[i,i] to a,
\* and one whose inner loop is "for j in range(i,4)".
GMatrix_ReflectionCounted(T) ==
    [i \in Leads |-> [j \in Leads |->
        IF j = i THEN -(T[i][0] + T[i][1] + T[i][2] + T[i][3]) ELSE T[i][j]]]

GMatrix_UpperOnly(T) ==
    [i \in Leads |-> [j \in Leads |->
        IF j < i THEN 0
        ELSE IF j = i THEN -RowAcc([x \in Leads |-> [y \in Leads |->
                                      IF y < x THEN 0 ELSE T[x][y]]], i, 3)
        ELSE T[i][j]]]

\* A loop that ends with G[i,i] = a, the sign of the diagonal lost.
GMatrix_PositiveDiagonal(T) ==
    [i \in Leads |-> [j \in Leads |-> IF j = i THEN RowAcc(T, i, 3) ELSE T[i][j]]]

GMatrix(T) ==
    [i \in Leads |-> [j \in Leads |-> IF j = i THEN -RowAcc(T, i, 3) ELSE T[i][j]]]

\* G[1:,1:], a variant of the slice.
Reduced_LastThree(M) == [i \in 0..2 |-> [j \in 0..2 |-> M[i + 1][j + 1]]]

\* G[:3,:3]
Reduced(M) == [i \in 0..2 |-> [j \in 0..2 |-> M[i][j]]]

\* [1.,0,0]
CurrentPattern == [i \in 0..2 |-> IF i = 0 THEN One ELSE Zero]

-----------------------------------------------------------------------------
(* np.linalg.solve, line 231: LAPACK gesv.  An entry of the working matrix *)
(* is [v, x]: v is its value in exact arithmetic, x tells that the floats  *)
(* computed so far give exactly v.  An entry with v = 0 and x = FALSE is a *)
(* rounding residue: zero in one build, tiny and nonzero in another.       *)

EZero == [v |-> Zero, x |-> TRUE]
IsEZero(e) == e.x /\ e.v.n = 0

EDiv(c, p) ==
    IF IsEZero(c) THEN EZero
    ELSE [v |-> RDiv(c.v, p.v), x |-> c.x /\ p.x /\ IsPow2Rat(p.v)]

EMul(a, b) ==
    IF IsEZero(a) \/ IsEZero(b) THEN EZero
    ELSE [v |-> RMul(a.v, b.v), x |-> a.x /\ b.x]

ESub(a, b) ==
    IF IsEZero(b) THEN a
    ELSE IF IsEZero(a) THEN [v |-> RSub(Zero, b.v), x |-> b.x]
    ELSE [v |-> RSub(a.v, b.v), x |-> a.x /\ b.x]

Inexact(e) == [v |-> e.v, x |-> FALSE]

\* The rows k..2 whose entry in column k is largest in magnitude.
MaxRows(A, k) ==
    {i \in k..2 : \A r \in k..2 : ~RAbsLess(A[i][k].v, A[r][k].v)}

\* idamax: the first of them.
PivotRow(A, k) == CHOOSE i \in MaxRows(A, k) : \A r \in MaxRows(A, k) : i <= r

\* Floats that round differently may order two near-equal candidates either way.
Ambiguous(A, k) ==
    Cardinality(MaxRows(A, k)) > 1 /\ \E i \in MaxRows(A, k) : ~A[i][k].x

SwapRows(A, k, p) ==
    [i \in DOMAIN A |-> IF i = k THEN A[p] ELSE IF i = p THEN A[k] ELSE A[i]]

\* One step of the elimination on the matrix A and the right-hand side b.
Eliminate(A, b, k) ==
    LET p == PivotRow(A, k)
        amb == Ambiguous(A, k)
        A1 == SwapRows(A, k, p)
        b1 == SwapRows(b, k, p)
        l == [i \in 0..2 |-> IF i > k THEN EDiv(A1[i][k], A1[k][k]) ELSE EZero]
        upd(i, j) ==
            LET e == ESub(A1[i][j], EMul(l[i], A1[k][j]))
            IN  IF amb THEN Inexact(e) ELSE e
    IN  [A |-> [i \in 0..2 |-> [j \in 0..2 |->
                  IF i > k /\ j > k THEN upd(i, j)
                  ELSE IF i > k /\ j = k THEN EZero
                  ELSE A1[i][j]]],
         b |-> [i \in 0..2 |->
                  IF i > k THEN RSub(b1[i], RMul(l[i].v, b1[k])) ELSE b1[i]]]

\* Column 1 holds only zeros and residues.  With the residue of row r taken
\* as the (tiny) pivot, the last pivot is the entry [o][2] of the other row
\* when its multiplier or the pivot row's entry is an exact zero, and depends
\* on the rounding otherwise.
LastPivotIsZero(A, r) ==
    LET o == 3 - r
    IN  (IsEZero(A[o][1]) \/ IsEZero(A[r][2])) /\ IsEZero(A[o][2])

\* The outcome of the factorisation from step k on:
\*   "solution"  every pivot is nonzero,
\*   "singular"  an exactly zero pivot is met in every build,
\*   "rounding"  the matrix is singular and the zero pivot may be lost to rounding.
RECURSIVE Factor(_, _, _)
Factor(A, b, k) ==
    IF k = 3 THEN [res |-> "solution", A |-> A, b |-> b]
    ELSE IF \E i \in k..2 : A[i][k].v.n # 0
         THEN LET e == Eliminate(A, b, k) IN Factor(e.A, e.b, k + 1)
    ELSE IF \A i \in k..2 : A[i][k].x
         THEN [res |-> "singular", A |-> A, b |-> b]
    ELSE IF k = 1 /\ \A r \in 1..2 : A[r][1].x \/ LastPivotIsZero(A, r)
         THEN [res |-> "singular", A |-> A, b |-> b]
    ELSE [res |-> "rounding", A |-> A, b |-> b]

\* Back substitution on the upper triangle.
BackSubst(A, b) ==
    LET x2 == RDiv(b[2], A[2][2].v)
        x1 == RDiv(RSub(b[1], RMul(A[1][2].v, x2)), A[1][1].v)
        x0 == RDiv(RSub(RSub(b[0], RMul(A[0][1].v, x1)), RMul(A[0][2].v, x2)),
                   A[0][0].v)
    IN  [i \in 0..2 |-> IF i = 0 THEN x0 ELSE IF i = 1 THEN x1 ELSE x2]

\* The factorisation of a matrix M of integers, which floats hold exactly.
LU(M, b) ==
    Factor([i \in 0..2 |-> [j \in 0..2 |-> [v |-> FromInt(M[i][j]), x |-> TRUE]]],
           b, 0)

\* A solver that never raises and answers a singular system with some
\* vector, as np.linalg.lstsq or a caught exception would.
Solve_NeverRaises(M, b) ==
    LET f == LU(M, b)
    IN  IF f.res = "solution" THEN {[raised |-> FALSE, x |-> BackSubst(f.A, f.b)]}
        ELSE {[raised |-> FALSE, x |-> NoVector]}

\* What np.linalg.solve(M, b) can do: raise LinAlgError, or return a vector.
Solve(M, b) ==
    LET f == LU(M, b)
    IN  IF f.res = "solution" THEN {[raised |-> FALSE, x |-> BackSubst(f.A, f.b)]}
        ELSE IF f.res = "singular" THEN {[raised |-> TRUE, x |-> NoVector]}
        ELSE {[raised |-> TRUE, x |-> NoVector], [raised |-> FALSE, x |-> NoVector]}

-----------------------------------------------------------------------------
(* Transport, lines 220-234.                                               *)

\* Hall = V[2] - V[1]
HallOf(x) == RSub(x[2], x[1])

\* The ways a call of Transport on the table T can end.
Transport(T) ==
    LET Gm == GMatrix(T)
    IN  {[raised |-> s.raised, G |-> Gm, V |-> s.x, Hall |-> HallOf(s.x)] :
            s \in Solve(Reduced(Gm), CurrentPattern)}

-----------------------------------------------------------------------------
(* The namespaces of the two sweep cells.                                  *)

\* SimpleNamespace(L=20, W=15, delta=d, r0=6, Ex=1.)
HallArgs(d) == [L |-> 20, W |-> 15, delta |-> d, r0 |-> 6, Ex |-> One]
HallNamespace == HallArgs(FromInt(3))

\* SimpleNamespace(Exc=0.2, E=2.3); the for loop adds the attribute angle.
AngleNamespace == [Exc |-> Rat(1, 5), E |-> Rat(23, 10)]
AngleArgs(a) == [Exc |-> Rat(1, 5), E |-> Rat(23, 10), angle |-> a]

\* The cells that are not run leave their variables as they are.
SweepNotRun ==
    /\ Hf = <<>>
    /\ ps = HallNamespace
    /\ params = AngleNamespace
    /\ Es = <<>>
    /\ angles = <<>>
    /\ point = 0
    /\ dataHall = <<>>
    /\ data = <<>>

BuilderNotRun ==
    /\ H = [by |-> "nobody", leads |-> <<>>]
    /\ finalized = <<>>

-----------------------------------------------------------------------------
(* One call of Transport on a table that kwant.smatrix may return.         *)

InitTransport ==
    /\ pc = "call"
    /\ \E r0 \in Rows[MaxTotal] :
       \E r1 \in Rows[MaxTotal - RowSum(r0)] :
       \E r2 \in Rows[MaxTotal - RowSum(r0) - RowSum(r1)] :
       \E r3 \in Rows[MaxTotal - RowSum(r0) - RowSum(r1) - RowSum(r2)] :
          smat = TableOf(r0, r1, r2, r3)
    /\ G = NoMatrix
    /\ V = NoVector
    /\ Hall = NotANumber
    /\ SweepNotRun
    /\ BuilderNotRun

CallReturns ==
    /\ pc = "call"
    /\ \E r \in Transport(smat) :
          /\ ~r.raised
          /\ pc' = "returned"
          /\ G' = r.G
          /\ V' = r.V
          /\ Hall' = r.Hall
    /\ UNCHANGED <<smat, sweepVars, builderVars>>

CallRaises ==
    /\ pc = "call"
    /\ \E r \in Transport(smat) : r.raised
    /\ pc' = "LinAlgError"
    /\ UNCHANGED <<transportVars, sweepVars, builderVars>>

NextTransport == CallReturns \/ CallRaises

SpecTransport == InitTransport /\ [][NextTransport]_vars

-----------------------------------------------------------------------------
(* Properties of Transport.                                                *)

\* The determinant of the upper-left 3x3 block of a matrix of integers.
Det3(M) ==
      M[0][0] * (M[1][1] * M[2][2] - M[1][2] * M[2][1])
    - M[0][1] * (M[1][0] * M[2][2] - M[1][2] * M[2][0])
    + M[0][2] * (M[1][0] * M[2][1] - M[1][1] * M[2][0])

\* C1: in the matrix G that Transport returns, every off-diagonal entry
\* G[i][j] is transmission(i, j), every diagonal entry G[i][i] is minus the
\* sum of the off-diagonal transmissions of row i (the reflection
\* transmission(i, i) is left out), and so every row of G sums to zero.
C1_ConductanceMatrix ==
    pc = "returned" =>
        \A i \in Leads :
            /\ \A j \in Leads \ {i} : G[i][j] = smat[i][j]
            /\ G[i][i] = -(smat[i][0] + smat[i][1] + smat[i][2] + smat[i][3]
                           - smat[i][i])
            /\ G[i][0] + G[i][1] + G[i][2] + G[i][3] = 0

\* A call returned a matrix whose row 0 has a reflection of 2 that the
\* diagonal does not count.
C1_ReflectionLeftOut ==
    /\ pc = "returned"
    /\ smat[0][0] = 2
    /\ smat[0][3] = 1
    /\ G[0][0] = -1

\* C2: when the block G[0..2][0..2] is regular, the V that Transport computes
\* solves that block against the current pattern (1, 0, 0): with lead 3 as
\* the voltage reference, V3 = 0, the currents sum_j G[i][j] V[j] are 1 at
\* lead 0 and 0 at leads 1 and 2; and Hall is V[2] - V[1].
C2_ReducedSolve ==
    pc = "returned" /\ Det3(G) # 0 =>
        /\ \A i \in 0..2 :
              RAdd(RAdd(RAdd(RMul(FromInt(G[i][0]), V[0]),
                             RMul(FromInt(G[i][1]), V[1])),
                        RMul(FromInt(G[i][2]), V[2])),
                   RMul(FromInt(G[i][3]), Zero))
                 = IF i = 0 THEN One ELSE Zero
        /\ Hall = RSub(V[2], V[1])

\* A call returned a Hall voltage that is not zero.
C2_HallVoltage ==
    /\ pc = "returned"
    /\ Det3(G) # 0
    /\ IsNumber(Hall)
    /\ Hall.n # 0
    /\ G[0][1] # 0

\* C8: when the table of transmissions is symmetric, transmission(i, j) =
\* transmission(j, i) for all leads, the matrix G that Transport returns is
\* symmetric.
C8_SymmetricG ==
    pc = "returned" /\ (\A i, j \in Leads : smat[i][j] = smat[j][i]) =>
        \A i, j \in Leads : G[i][j] = G[j][i]

\* A call on a symmetric table with nonzero transmissions returned.
C8_SymmetricTable ==
    /\ pc = "returned"
    /\ \A i, j \in Leads : smat[i][j] = smat[j][i]
    /\ G[0][3] = 1
    /\ G[3][0] = 1
    /\ G[1][2] = 1

\* C11: when the transmissions conserve current (for every lead j the
\* transmissions into j from the other leads sum to the transmissions out of
\* j to the other leads) and the block G[0..2][0..2] is regular, the
\* voltages V0, V1, V2 that Transport solved for, together with V3 = 0, also
\* satisfy the fourth equation that the slice G[:3,:3] dropped: the current
\* sum_j G[3][j] Vj at lead 3 is -1, and the four currents sum to zero.
C11_DroppedEquation ==
    LET Vj(j) == IF j = 3 THEN Zero ELSE V[j]
        Current(i) ==
            RAdd(RAdd(RAdd(RMul(FromInt(G[i][0]), Vj(0)),
                           RMul(FromInt(G[i][1]), Vj(1))),
                      RMul(FromInt(G[i][2]), Vj(2))),
                 RMul(FromInt(G[i][3]), Vj(3)))
        Into(j) == smat[0][j] + smat[1][j] + smat[2][j] + smat[3][j] - smat[j][j]
        OutOf(j) == smat[j][0] + smat[j][1] + smat[j][2] + smat[j][3] - smat[j][j]
    IN  pc = "returned" /\ Det3(G) # 0 /\ (\A j \in Leads : Into(j) = OutOf(j)) =>
            /\ Current(3) = FromInt(-1)
            /\ RAdd(RAdd(Current(0), Current(1)), RAdd(Current(2), Current(3))) = Zero

\* A call returned on a table that conserves current without being
\* symmetric: one channel of each lead turns to the next lead, and lead 0
\* reflects one more.
C11_CirculatingTable ==
    /\ pc = "returned"
    /\ Det3(G) # 0
    /\ \A j \in Leads :
          smat[0][j] + smat[1][j] + smat[2][j] + smat[3][j]
              = smat[j][0] + smat[j][1] + smat[j][2] + smat[j][3]
    /\ smat[1][0] = 1 /\ smat[0][1] = 0
    /\ smat[3][1] = 1 /\ smat[2][3] = 1 /\ smat[0][2] = 1
    /\ smat[0][0] = 1
    /\ Hall = One

-----------------------------------------------------------------------------
(* The two sweeps: the angle cell, lines 126-133, and the Hall cell, lines *)
(* 271-282.                                                                *)

\* np.linspace(start, stop, num)
linspace(start, stop, num) ==
    [i \in 1..num |->
        RAdd(start, RMul(FromInt(i - 1), RDiv(RSub(stop, start), FromInt(num - 1))))]

\* np.linspace(0.1,3.,50) and np.linspace(0,2*pi,100), the latter in units of pi.
HallPoints == linspace(Rat(1, 10), FromInt(3), NumEs)
AnglePoints == linspace(Zero, FromInt(2), NumAngles)

Range(s) == {s[i] : i \in DOMAIN s}

\* The grids a sweep is run on: GridLen points of the linspace, taken in any
\* order and any number of times.
Orders(points) == [1..GridLen -> Range(points)]

\* Tables of the four-lead junction of MakeSystem with three open channels
\* per lead; every row and every column sums to the number of channels.
\*   Closed          every channel is reflected
\*   QuarterTurn     one channel of each lead turns to the next lead
\*   ReverseTurn     one channel of each lead turns to the previous lead
\*   DecoupledDrain  lead 0 exchanges one channel with lead 1 and two with
\*                   lead 2, lead 3 reflects everything
Closed == TableOf(<<3, 0, 0, 0>>, <<0, 3, 0, 0>>, <<0, 0, 3, 0>>, <<0, 0, 0, 3>>)
QuarterTurn == TableOf(<<2, 0, 1, 0>>, <<1, 2, 0, 0>>, <<0, 0, 2, 1>>, <<0, 1, 0, 2>>)
ReverseTurn == TableOf(<<2, 1, 0, 0>>, <<0, 2, 0, 1>>, <<1, 0, 2, 0>>, <<0, 0, 1, 2>>)
DecoupledDrain == TableOf(<<0, 1, 2, 0>>, <<1, 2, 0, 0>>, <<2, 0, 1, 0>>, <<0, 0, 0, 3>>)
HallTables == {Closed, QuarterTurn, ReverseTurn, DecoupledDrain}

\* Tables of the two-lead wire of the angle cell with two open channels, of
\* which t are transmitted.
TwoLeadTable(t) == [i \in 0..1 |-> [j \in 0..1 |-> IF i = j THEN 2 - t ELSE t]]
AngleTables == {TwoLeadTable(t) : t \in 0..2}

\* kwant.smatrix(sys, energy, args=[ns]).transmission
smatrix(sys, energy, ns) == sys[<<energy, ns>>]

\* ps.delta = EE, and a cell that leaves the assignment out.
SetDelta_Skipped(ns, EE) == ns

SetDelta(ns, EE) == [ns EXCEPT !.delta = EE]

\* for params.angle in angles
SetAngle(ns, a) == [Exc |-> ns.Exc, E |-> ns.E, angle |-> a]

InitHallCell ==
    /\ pc = "Hall sweep"
    /\ ps = HallNamespace
    /\ Es \in Orders(HallPoints)
    /\ Hf \in [{<<FromInt(2), HallArgs(d)>> : d \in Range(HallPoints)} -> HallTables]
    /\ dataHall = <<>>
    /\ params = AngleNamespace
    /\ angles = <<>>
    /\ data = <<>>

InitAngleCell ==
    /\ pc = "angle sweep"
    /\ params = AngleNamespace
    /\ angles \in Orders(AnglePoints)
    /\ Hf \in [{<<AngleNamespace.E, AngleArgs(a)>> : a \in Range(AnglePoints)}
                  -> AngleTables]
    /\ data = <<>>
    /\ ps = HallNamespace
    /\ Es = <<>>
    /\ dataHall = <<>>

InitSweep ==
    /\ InitHallCell \/ InitAngleCell
    /\ point = 0
    /\ smat = NoMatrix
    /\ G = NoMatrix
    /\ V = NoVector
    /\ Hall = NotANumber
    /\ BuilderNotRun

\* Lines 278-282: one pass of the loop body in which Transport returns.
HallPointReturns ==
    /\ pc = "Hall sweep"
    /\ point < Len(Es)
    /\ LET ps1 == SetDelta(ps, Es[point + 1])
           T == smatrix(Hf, FromInt(2), ps1)
       IN  \E r \in Transport(T) :
              /\ ~r.raised
              /\ ps' = ps1
              /\ smat' = T
              /\ G' = r.G
              /\ V' = r.V
              /\ Hall' = r.Hall
              /\ dataHall' = Append(dataHall, r.Hall)
    /\ point' = point + 1
    /\ UNCHANGED <<pc, Hf, params, Es, angles, data, builderVars>>

\* Lines 278-281: np.linalg.solve raises inside Transport; nothing catches
\* the exception and the cell ends with its traceback.
HallPointRaises ==
    /\ pc = "Hall sweep"
    /\ point < Len(Es)
    /\ LET ps1 == SetDelta(ps, Es[point + 1])
           T == smatrix(Hf, FromInt(2), ps1)
       IN  /\ \E r \in Transport(T) : r.raised
           /\ ps' = ps1
           /\ smat' = T
    /\ point' = point + 1
    /\ pc' = "LinAlgError"
    /\ UNCHANGED <<G, V, Hall, Hf, params, Es, angles, dataHall, data, builderVars>>

\* Line 284: the loop is over and the cell plots.
HallSweepEnds ==
    /\ pc = "Hall sweep"
    /\ point = Len(Es)
    /\ pc' = "plotted"
    /\ UNCHANGED <<transportVars, sweepVars, builderVars>>

\* Lines 131-133: one pass of the loop body.
AnglePoint ==
    /\ pc = "angle sweep"
    /\ point < Len(angles)
    /\ LET p1 == SetAngle(params, angles[point + 1])
       IN  /\ params' = p1
           /\ data' = Append(data, smatrix(Hf, p1.E, p1)[1][0])
    /\ point' = point + 1
    /\ UNCHANGED <<pc, transportVars, Hf, ps, Es, angles, dataHall, builderVars>>

\* Line 135: the loop is over and the cell plots.
AngleSweepEnds ==
    /\ pc = "angle sweep"
    /\ point = Len(angles)
    /\ pc' = "plotted"
    /\ UNCHANGED <<transportVars, sweepVars, builderVars>>

NextSweep ==
    \/ HallPointReturns
    \/ HallPointRaises
    \/ HallSweepEnds
    \/ AnglePoint
    \/ AngleSweepEnds

SpecSweep == InitSweep /\ [][NextSweep]_vars

-----------------------------------------------------------------------------
(* Properties of the sweeps.                                               *)

\* The table kwant.smatrix gives at the n-th point of the Hall grid.
HallTableAt(n) == Hf[<<FromInt(2), HallArgs(Es[n])>>]

\* The claim C3 as it is stated: a point whose block G[0..2][0..2] is
\* singular always ends the sweep with LinAlgError, so no appended Hall value
\* comes from a singular block.
C3_SingularAlwaysRaises ==
    pc \in {"Hall sweep", "plotted", "LinAlgError"} =>
        \A n \in 1..Len(dataHall) : Det3(GMatrix(HallTableAt(n))) # 0

\* C3: when np.linalg.solve raises LinAlgError the sweep has ended at that
\* point: the block G[0..2][0..2] of the point is singular, Transport
\* returned no (G, Hall) pair (G and Hall are those of the point before),
\* dataHall holds the values of the points before and none for this one, and
\* no step follows.  The error is certain when the factorisation meets an
\* exactly zero pivot: no appended value comes from such a table.  A singular
\* block whose zero pivot is lost to rounding may instead go undetected.
C3_LinAlgErrorIsFatal ==
    /\ pc = "LinAlgError" =>
          /\ Det3(GMatrix(smat)) = 0
          /\ smat = HallTableAt(point)
          /\ Len(dataHall) = point - 1
          /\ Hall = IF point = 1 THEN NotANumber ELSE dataHall[point - 1]
          /\ G = IF point = 1 THEN NoMatrix ELSE GMatrix(HallTableAt(point - 1))
          /\ ~ENABLED NextSweep
    /\ pc \in {"Hall sweep", "plotted", "LinAlgError"} =>
          \A n \in 1..Len(dataHall) :
              LU(Reduced(GMatrix(HallTableAt(n))), CurrentPattern).res # "singular"

\* The second point of a sweep raised LinAlgError after the first point had
\* given a Hall value.
C3_RaisedAtSecondPoint ==
    /\ pc = "LinAlgError"
    /\ point = 2
    /\ Len(dataHall) = 1
    /\ Hall = One
    /\ smat = Closed

\* C4: the value a sweep appends for a point is the value of that point
\* alone: it is what Transport (or transmission(1, 0)) gives for the
\* constants of the sweep and the point's own delta (or angle), whichever
\* points came before it and in whatever order.  Equal points have equal
\* values.
C4_PointsIndependent ==
    /\ pc \in {"Hall sweep", "plotted", "LinAlgError"} =>
          /\ \A n \in 1..Len(dataHall) :
                \E r \in Transport(Hf[<<FromInt(2), HallArgs(Es[n])>>]) :
                    ~r.raised /\ dataHall[n] = r.Hall
          /\ \A m, n \in 1..Len(dataHall) :
                Es[m] = Es[n] => dataHall[m] = dataHall[n]
    /\ pc \in {"angle sweep", "plotted"} =>
          /\ \A n \in 1..Len(data) :
                data[n] = Hf[<<Rat(23, 10), AngleArgs(angles[n])>>][1][0]
          /\ \A m, n \in 1..Len(data) :
                angles[m] = angles[n] => data[m] = data[n]

\* A sweep came back to its first point after a point with another value.
C4_PointRevisited ==
    /\ Len(dataHall) = 3
    /\ Es[1] = Es[3]
    /\ Es[1] # Es[2]
    /\ dataHall[1] # dataHall[2]
    /\ dataHall[3] = dataHall[1]
    /\ IsNumber(dataHall[1])

-----------------------------------------------------------------------------
(* Builders and their leads: MakeSystem and the cell of the angle sweep in *)
(* 3.3.MagnetoResistance-cheat.ipynb, make_wire and the _dot cell in       *)
(* 2.2.scattering.ipynb.  A builder is modelled by who made it and by its  *)
(* list of leads; a lead is its template and the number of the attach_lead *)
(* call that attached it.                                                  *)

\* kwant.Builder()
Builder(by) == [by |-> by, leads |-> <<>>]

\* b.attach_lead(lead): the lead is appended to b.leads.
attach_lead(b, lead) ==
    [b EXCEPT !.leads = Append(@, [lead |-> lead, call |-> Len(@) + 1])]

\* b.finalized().leads: the leads of the builder, in its order.
finalized_leads(b) == b.leads

\* A MakeSystem that attaches the reversed x lead second.
MakeSystem_ReversedXSecond ==
    attach_lead(attach_lead(attach_lead(attach_lead(Builder("MakeSystem"),
        "H_lead_x"), "H_lead_x.reversed()"), "H_lead_y"), "H_lead_y.reversed()")

\* MakeSystem, lines 209-212.
MakeSystem ==
    attach_lead(attach_lead(attach_lead(attach_lead(Builder("MakeSystem"),
        "H_lead_x"), "H_lead_y"), "H_lead_y.reversed()"), "H_lead_x.reversed()")

\* make_wire, lines 196-198.
make_wire ==
    attach_lead(attach_lead(Builder("make_wire"), "lead"), "lead.reversed()")

\* The cell of the angle system, lines 72-81.
AngleSystem ==
    attach_lead(attach_lead(Builder("angle cell"), "Hlead"), "Hlead.reversed()")

\* The _dot cell, lines 331-332.
Dot == attach_lead(Builder("make_dot"), "make_lead_x(10)")

\* The leads the text after the _dot cell asks to attach to the dot.
ExerciseLeads ==
    {"make_lead_x(10)", "make_lead_x(10).reversed()",
     "make_lead_y(10)", "make_lead_y(10).reversed()"}

InitBuilder ==
    /\ pc = "build"
    /\ BuilderNotRun
    /\ SweepNotRun
    /\ smat = NoMatrix
    /\ G = NoMatrix
    /\ V = NoVector
    /\ Hall = NotANumber

CallMakeSystem ==
    /\ pc = "build"
    /\ H' = MakeSystem
    /\ pc' = "built"
    /\ UNCHANGED <<finalized, transportVars, sweepVars>>

CallMakeWire ==
    /\ pc = "build"
    /\ H' = make_wire
    /\ pc' = "built"
    /\ UNCHANGED <<finalized, transportVars, sweepVars>>

RunAngleSystemCell ==
    /\ pc = "build"
    /\ H' = AngleSystem
    /\ pc' = "built"
    /\ UNCHANGED <<finalized, transportVars, sweepVars>>

RunDotCell ==
    /\ pc = "build"
    /\ H' = Dot
    /\ pc' = "built"
    /\ UNCHANGED <<finalized, transportVars, sweepVars>>

\* One more attach_lead call on the dot.
AttachLead ==
    /\ pc \in {"built", "finalized"}
    /\ H.by = "make_dot"
    /\ Len(H.leads) < MaxLeads
    /\ \E lead \in ExerciseLeads : H' = attach_lead(H, lead)
    /\ pc' = "built"
    /\ UNCHANGED <<finalized, transportVars, sweepVars>>

\* H.finalized()
Finalize ==
    /\ pc = "built"
    /\ finalized' = finalized_leads(H)
    /\ pc' = "finalized"
    /\ UNCHANGED <<H, transportVars, sweepVars>>

NextBuilder ==
    \/ CallMakeSystem
    \/ CallMakeWire
    \/ RunAngleSystemCell
    \/ RunDotCell
    \/ AttachLead
    \/ Finalize

SpecBuilder == InitBuilder /\ [][NextBuilder]_vars

-----------------------------------------------------------------------------
(* Properties of the builders.                                             *)

\* The templates of a list of leads, by index.
Templates(leads) == [n \in 1..Len(leads) |-> leads[n].lead]

\* C5: the lead at index k-1 of a builder is the one its k-th attach_lead
\* call attached, and the leads of the finalized system are leads of the
\* builder at the same indices; a later attach_lead call or finalization
\* leaves every lead already attached at its index.  MakeSystem gives
\* 0 = x lead, 1 = y lead, 2 = reversed y lead, 3 = reversed x lead, and
\* make_wire gives 0 = lead, 1 = its reversed copy.
C5_LeadIndices ==
    /\ [](/\ \A n \in 1..Len(H.leads) : H.leads[n].call = n
          /\ Len(finalized) <= Len(H.leads)
          /\ \A n \in 1..Len(finalized) : finalized[n] = H.leads[n]
          /\ H.by = "MakeSystem" =>
                Templates(H.leads) = <<"H_lead_x", "H_lead_y",
                                       "H_lead_y.reversed()", "H_lead_x.reversed()">>
          /\ H.by = "make_wire" =>
                Templates(H.leads) = <<"lead", "lead.reversed()">>)
    /\ [][/\ \A n \in 1..Len(H.leads) :
                Len(H'.leads) >= n /\ H'.leads[n] = H.leads[n]
          /\ \A n \in 1..Len(finalized) :
                Len(finalized') >= n /\ finalized'[n] = finalized[n]]_vars

\* MakeSystem's builder was finalized with the reversed y lead at index 2.
C5_MakeSystemFinalized ==
    /\ pc = "finalized"
    /\ H.by = "MakeSystem"
    /\ Len(finalized) = 4
    /\ finalized[3].lead = "H_lead_y.reversed()"
    /\ finalized[3].call = 3

====
